---- MODULE Spec2Model ----
\* The JSDOM backend of the ersatz WebView (src/src/JSDOMBackend.tsx):
\* initDOM, the JSDOMBackend component (its two state hooks, the memoised
\* onLoad wrapper, the memoised DOM instance) and its imperative handle.
EXTENDS Integers, Sequences, FiniteSets, TLC

\* ---------------------------------------------------------------- bounds
\* reload() calls and prop changes together, prop changes alone, and the
\* other calls of the handle (injectJavascript, stopLoading, goBack, goForward).
MaxRebuilds == 2
MaxPropChanges == 1
MaxCalls == 1

\* ---------------------------------------------------------------- values
\* JavaScript's undefined, for an optional prop that is not supplied.
Undefined == "undefined"

CallbackNames ==
  {"onMessage", "onLoadStart", "onLoadProgress", "onLoad", "onLoadEnd",
   "onNavigationStateChange"}

\* Identities of the functions a host may pass as a callback.
Functions == {"f1", "f2"}

\* JavaScript values passed to postMessage.
Str(s) == [type |-> "string", val |-> s]
Num(s) == [type |-> "number", val |-> s]

\* The scripts of the model, each one statement.
PostHello == "window.postMessage('hello')"
PostReady == "window.ReactNativeWebView.postMessage('ready')"
Post42 == "window.postMessage(42)"
SetGlobal == "window.awesomeGlobal = (window.awesomeGlobal || 0) + 1"
SetTitle == "document.title = 'T2'"
EmptyScript == ""

\* The values of the optional boolean prop javaScriptEnabled.
True == "true"
False == "false"

\* JavaScript truthiness of an optional string or boolean (`x && ...`).
Truthy(x) == x \notin {Undefined, EmptyScript, False}

\* The title the markup gives the document.
TitleOf(html) == IF html = "<title>A</title>" THEN "A" ELSE "B"

VARIABLES
  props,                \* the props the host passes (DOMBackendProps)
  status,               \* "unmounted" | "mounted" | "crashed" (a render raised)
  backendState,         \* useState<BackendState>('loading'), as last rendered
  loadCycleId,          \* useState(0), as last rendered
  pendingBackendState,  \* value given to setBackendState, not yet rendered
  pendingLoadCycleId,   \* value given to setLoadCycleId, not yet rendered
  memoDeps,             \* dependency list of the last useMemo computation
  dom,                  \* index in doms of the memoised DOM instance
  doms,                 \* every DOM instance constructed so far
  lastWarning,          \* the last message given to console.warn
  nReloads, nPropChanges, nCalls

vars ==
  <<props, status, backendState, loadCycleId, pendingBackendState,
    pendingLoadCycleId, memoDeps, dom, doms, lastWarning,
    nReloads, nPropChanges, nCalls>>

None == "none"

\* ------------------------------------------------------------- initDOM
\* createNativeEvent of ./events: wraps the payload in a synthetic event.
createNativeEvent(payload) == [nativeEvent |-> payload]

\* `dom` of initDOM is bound once the JSDOM constructor has returned.
DomBound(d) == d.phase # "constructing"

\* eventBase holding the url and title of the construction.
eventBase_AtConstruction(d) ==
  [url |-> d.params.url, title |-> TitleOf(d.params.html)]

\* eventBase: url and title read from the DOM when the getters run.
eventBase(d) == [url |-> d.params.url, title |-> d.title]

\* `typeof cb === 'function'`.
IsFunction(cb) == cb # Undefined

\* The identity of the onLoad wrapper that useCallback memoises on
\* [userOnLoad], and the userOnLoad its closure holds.
WrapOnLoad(userOnLoad) ==
  CASE userOnLoad = "f1" -> "onLoad[f1]"
    [] userOnLoad = "f2" -> "onLoad[f2]"
    [] OTHER -> "onLoad[undefined]"

UserOnLoadOf(wrapper) ==
  CASE wrapper = "onLoad[f1]" -> "f1"
    [] wrapper = "onLoad[f2]" -> "f2"
    [] OTHER -> Undefined

\* A call of a host callback, recorded in the instance's log with the
\* number of setBackendState calls the instance's wrapper had made by then.
CallHost(d, name, arg) ==
  [d EXCEPT !.log = Append(@, [cb |-> name, arg |-> arg,
                               stateSets |-> d.stateSets])]

\* The onLoad wrapper calling userOnLoad before setBackendState.
onLoad_HostFirst(d, e) ==
  LET d1 == IF IsFunction(UserOnLoadOf(d.params.onLoad))
            THEN CallHost(d, "onLoad", e) ELSE d
  IN [d1 EXCEPT !.stateSets = @ + 1]

\* The onLoad wrapper: setBackendState('loaded') is called (LoadEvent
\* queues its update), then userOnLoad if it is a function.
onLoad(d, e) ==
  LET d1 == [d EXCEPT !.stateSets = @ + 1]
  IN IF IsFunction(UserOnLoadOf(d.params.onLoad))
     THEN CallHost(d1, "onLoad", e) ELSE d1

\* Dispatch without the typeof test.
Dispatch_Unguarded(d, name, arg) ==
  IF name = "onLoad" THEN onLoad(d, arg) ELSE CallHost(d, name, arg)

\* A guarded dispatch: `typeof cb === 'function' && cb(arg)`.
Dispatch(d, name, arg) ==
  IF IsFunction(d.params[name])
  THEN IF name = "onLoad" THEN onLoad(d, arg) ELSE CallHost(d, name, arg)
  ELSE d

\* postMessage, the bridge function of both window.postMessage and
\* window.ReactNativeWebView.postMessage.
postMessage(d, message) ==
  IF message.type # "string"
  THEN [dom |-> d, threw |-> TRUE]
  ELSE IF IsFunction(d.params.onMessage)
       THEN IF DomBound(d)
            THEN [dom |-> Dispatch(d, "onMessage",
                            createNativeEvent(
                              [url |-> eventBase(d).url,
                               title |-> eventBase(d).title,
                               data |-> message.val])),
                  threw |-> FALSE]
            \* the spread of eventBase reads `dom` before its initialisation
            ELSE [dom |-> d, threw |-> TRUE]
       ELSE [dom |-> d, threw |-> FALSE]

\* window.eval(script) in the script context of d.
Eval(d, script) ==
  CASE script = PostHello -> postMessage(d, Str("hello"))
    [] script = PostReady -> postMessage(d, Str("ready"))
    [] script = Post42 -> postMessage(d, Num("42"))
    [] script = SetGlobal ->
         [dom |-> [d EXCEPT !.awesomeGlobal = @ + 1], threw |-> FALSE]
    [] script = SetTitle ->
         [dom |-> [d EXCEPT !.title = "T2"], threw |-> FALSE]
    [] OTHER -> [dom |-> d, threw |-> FALSE]

\* window.eval(script), recorded in the instance's list of evaluations.
RunScript(d, script, phase) ==
  LET r == Eval(d, script)
  IN [dom |-> [r.dom EXCEPT !.evals =
                 Append(@, [script |-> script, phase |-> phase,
                            threw |-> r.threw])],
      threw |-> r.threw]

\* beforeParse(window): the bridge functions, then the early script.
beforeParse(d) ==
  IF Truthy(d.params.injectedJavaScriptBeforeContentLoaded)
  THEN RunScript(d, d.params.injectedJavaScriptBeforeContentLoaded,
                 "beforeParse")
  ELSE [dom |-> d, threw |-> FALSE]

\* LoadStart with the navigation-state change dispatched first.
LoadStart_NavFirst(d) ==
  LET startEvent == createNativeEvent(
        [url |-> eventBase(d).url, title |-> eventBase(d).title,
         loading |-> TRUE, navigationType |-> "other"])
      d1 == Dispatch(d, "onNavigationStateChange", startEvent.nativeEvent)
  IN Dispatch(d1, "onLoadStart", startEvent)

\* The load-start sequence at the end of initDOM.
LoadStart(d) ==
  LET startEvent == createNativeEvent(
        [url |-> eventBase(d).url, title |-> eventBase(d).title,
         loading |-> TRUE, navigationType |-> "other"])
      d1 == Dispatch(d, "onLoadStart", startEvent)
  IN Dispatch(d1, "onNavigationStateChange", startEvent.nativeEvent)

\* initDOM(params): the new instance, or the failure of its construction.
initDOM(params) ==
  LET d0 == [params |-> params, phase |-> "constructing", log |-> <<>>,
             evals |-> <<>>, title |-> "", awesomeGlobal |-> 0,
             stateSets |-> 0]
      b == beforeParse(d0)
  IN IF b.threw
     THEN [dom |-> [b.dom EXCEPT !.phase = "failed"], threw |-> TRUE]
     ELSE [dom |-> LoadStart([b.dom EXCEPT !.phase = "loading",
                                          !.title = TitleOf(params.html)]),
           threw |-> FALSE]

\* OnDOMContentLoaded without the test of javaScriptEnabled.
OnDOMContentLoaded_AnyFlag(d) ==
  IF Truthy(d.params.injectedJavascript)
  THEN RunScript(d, d.params.injectedJavascript, "DOMContentLoaded").dom
  ELSE d

\* OnDOMContentLoaded evaluating nothing.
OnDOMContentLoaded_NoScript(d) == d

\* The DOMContentLoaded listener.
OnDOMContentLoaded(d) ==
  IF Truthy(d.params.javaScriptEnabled) /\ Truthy(d.params.injectedJavascript)
  THEN RunScript(d, d.params.injectedJavascript, "DOMContentLoaded").dom
  ELSE d

\* OnLoadDispatch with onLoadEnd dispatched before onLoad.
OnLoadDispatch_EndFirst(d) ==
  LET loadEvent == createNativeEvent(
        [url |-> eventBase(d).url, title |-> eventBase(d).title,
         navigationType |-> "other"])
      loadProgress == createNativeEvent(
        [url |-> eventBase(d).url, title |-> eventBase(d).title,
         progress |-> 1])
      d1 == Dispatch(d, "onLoadProgress", loadProgress)
      d2 == Dispatch(d1, "onLoadEnd", loadEvent)
      d3 == Dispatch(d2, "onLoad", loadEvent)
  IN Dispatch(d3, "onNavigationStateChange", loadEvent.nativeEvent)

\* The load listener, but for the state change of the onLoad wrapper.
OnLoadDispatch(d) ==
  LET loadEvent == createNativeEvent(
        [url |-> eventBase(d).url, title |-> eventBase(d).title,
         navigationType |-> "other"])
      loadProgress == createNativeEvent(
        [url |-> eventBase(d).url, title |-> eventBase(d).title,
         progress |-> 1])
      d1 == Dispatch(d, "onLoadProgress", loadProgress)
      d2 == Dispatch(d1, "onLoad", loadEvent)
      d3 == Dispatch(d2, "onLoadEnd", loadEvent)
  IN Dispatch(d3, "onNavigationStateChange", loadEvent.nativeEvent)


\* ------------------------------------------------------- JSDOMBackend
\* The parameters the component gives initDOM.
Params(p, cycle) ==
  [html |-> p.html, url |-> p.url,
   injectedJavaScriptBeforeContentLoaded |->
     p.injectedJavaScriptBeforeContentLoaded,
   injectedJavascript |-> p.injectedJavascript,
   javaScriptEnabled |-> p.javaScriptEnabled,
   userAgent |-> p.userAgent,
   onMessage |-> p.onMessage, onLoadStart |-> p.onLoadStart,
   onLoadProgress |-> p.onLoadProgress, onLoad |-> WrapOnLoad(p.onLoad),
   onLoadEnd |-> p.onLoadEnd,
   onNavigationStateChange |-> p.onNavigationStateChange,
   loadCycleId |-> cycle]

\* Deps without userAgent.
Deps_NoUserAgent(p, cycle) ==
  <<p.html, p.url, p.injectedJavaScriptBeforeContentLoaded,
    p.injectedJavascript, p.javaScriptEnabled, p.onMessage, p.onLoadStart,
    p.onLoadProgress, WrapOnLoad(p.onLoad), p.onLoadEnd,
    p.onNavigationStateChange, cycle>>

\* Deps with the backend state among the dependencies.
Deps_WithState(p, cycle) ==
  <<p.html, p.url, p.userAgent, p.injectedJavaScriptBeforeContentLoaded,
    p.injectedJavascript, p.javaScriptEnabled, p.onMessage, p.onLoadStart,
    p.onLoadProgress, WrapOnLoad(p.onLoad), p.onLoadEnd,
    p.onNavigationStateChange, cycle,
    IF pendingBackendState = <<>> THEN backendState
    ELSE pendingBackendState[1]>>

\* The dependency list of useMemo.
Deps(p, cycle) ==
  <<p.html, p.url, p.userAgent, p.injectedJavaScriptBeforeContentLoaded,
    p.injectedJavascript, p.javaScriptEnabled, p.onMessage, p.onLoadStart,
    p.onLoadProgress, WrapOnLoad(p.onLoad), p.onLoadEnd,
    p.onNavigationStateChange, cycle>>

\* A state setter called with v. The queue of a hook is <<>> or holds the
\* value of its last update (the setters are given values, so the last
\* update wins); an update that changes nothing is not queued.
SetState(current, pending, v) ==
  IF pending = <<>> /\ v = current THEN <<>> ELSE <<v>>

\* The value a render reads from a state hook.
Rendered(current, pending) == IF pending = <<>> THEN current ELSE pending[1]

\* One render of the component with props p over the instances ds, the
\* queued updates pbs and pcyc applied: useState, useCallback, useMemo,
\* useImperativeHandle.
Render(p, ds, pbs, pcyc) ==
  LET bs == Rendered(backendState, pbs)
      cyc == Rendered(loadCycleId, pcyc)
      deps == Deps(p, cyc)
      r == initDOM(Params(p, cyc))
  IN /\ props' = p
     /\ pendingBackendState' = <<>>
     /\ pendingLoadCycleId' = <<>>
     /\ IF deps = memoDeps
        THEN /\ doms' = ds
             /\ UNCHANGED <<memoDeps, dom>>
             /\ status' = "mounted"
             /\ backendState' = bs
             /\ loadCycleId' = cyc
        ELSE /\ doms' = Append(ds, r.dom)
             /\ IF r.threw
                THEN /\ status' = "crashed"
                     /\ UNCHANGED <<memoDeps, dom, backendState, loadCycleId>>
                ELSE /\ status' = "mounted"
                     /\ memoDeps' = deps
                     /\ dom' = Len(ds) + 1
                     /\ backendState' = bs
                     /\ loadCycleId' = cyc

\* The first render.
Mount ==
  /\ status = "unmounted"
  /\ Render(props, doms, <<>>, <<>>)
  /\ UNCHANGED <<lastWarning, nReloads, nPropChanges, nCalls>>

\* The re-render React schedules for queued state updates.
Rerender ==
  /\ status = "mounted"
  /\ pendingBackendState # <<>> \/ pendingLoadCycleId # <<>>
  /\ Render(props, doms, pendingBackendState, pendingLoadCycleId)
  /\ UNCHANGED <<lastWarning, nReloads, nPropChanges, nCalls>>

\* SetProps with the changed prop starting a new load cycle.
SetProps_NewCycle(field, value) ==
  /\ status = "mounted"
  /\ nPropChanges < MaxPropChanges
  /\ nReloads + nPropChanges < MaxRebuilds
  /\ props[field] # value
  /\ Render([props EXCEPT ![field] = value], doms, pendingBackendState,
            <<Rendered(loadCycleId, pendingLoadCycleId) + 1>>)
  /\ nPropChanges' = nPropChanges + 1
  /\ UNCHANGED <<lastWarning, nReloads, nCalls>>

\* The host renders the component with one prop changed.
SetProps(field, value) ==
  /\ status = "mounted"
  /\ nPropChanges < MaxPropChanges
  /\ nReloads + nPropChanges < MaxRebuilds
  /\ props[field] # value
  /\ Render([props EXCEPT ![field] = value], doms, pendingBackendState,
            pendingLoadCycleId)
  /\ nPropChanges' = nPropChanges + 1
  /\ UNCHANGED <<lastWarning, nReloads, nCalls>>

\* A state update outside a React batch is rendered at once; nothing is
\* queued then, a batch being flushed when it ends.
MayFlush(batched) ==
  batched \/ (pendingBackendState = <<>> /\ pendingLoadCycleId = <<>>)

\* reload() of the handle; batched when React defers the re-render.
reload(batched) ==
  /\ status = "mounted"
  /\ MayFlush(batched)
  /\ nReloads + nPropChanges < MaxRebuilds
  /\ LET pcyc == SetState(loadCycleId, pendingLoadCycleId, loadCycleId + 1)
     IN IF batched
        THEN /\ pendingLoadCycleId' = pcyc
             /\ UNCHANGED <<props, status, backendState, loadCycleId,
                            pendingBackendState, memoDeps, dom, doms>>
        ELSE Render(props, doms, pendingBackendState, pcyc)
  /\ nReloads' = nReloads + 1
  /\ UNCHANGED <<lastWarning, nPropChanges, nCalls>>

\* Unimplemented, with the control also starting a new load cycle.
Unimplemented_Reloads(message) ==
  /\ status = "mounted"
  /\ nCalls < MaxCalls
  /\ lastWarning' = message
  /\ nCalls' = nCalls + 1
  /\ pendingLoadCycleId' = <<loadCycleId + 1>>
  /\ UNCHANGED <<props, status, backendState, loadCycleId,
                 pendingBackendState, memoDeps, dom, doms,
                 nReloads, nPropChanges>>

\* The three unimplemented controls.
Unimplemented(message) ==
  /\ status = "mounted"
  /\ nCalls < MaxCalls
  /\ lastWarning' = message
  /\ nCalls' = nCalls + 1
  /\ UNCHANGED <<props, status, backendState, loadCycleId,
                 pendingBackendState, pendingLoadCycleId, memoDeps, dom, doms,
                 nReloads, nPropChanges>>

goBack == Unimplemented("goBack not implemented")
goForward == Unimplemented("goForward not implemented")
stopLoading == Unimplemented("stopLoading not implemented")

\* injectJavascript without the test of backendState.
injectJavascript_Unguarded(script) ==
  /\ status = "mounted"
  /\ nCalls < MaxCalls
  /\ doms' = [doms EXCEPT ![dom] =
                RunScript(doms[dom], script, "injectJavascript").dom]
  /\ nCalls' = nCalls + 1
  /\ UNCHANGED <<props, status, backendState, loadCycleId,
                 pendingBackendState, pendingLoadCycleId, memoDeps, dom,
                 lastWarning, nReloads, nPropChanges>>

\* injectJavascript(script) of the handle.
injectJavascript(script) ==
  /\ status = "mounted"
  /\ nCalls < MaxCalls
  /\ LET r == RunScript(doms[dom], script, "injectJavascript")
     IN IF backendState = "loaded"
        THEN doms' = [doms EXCEPT ![dom] = r.dom]
        ELSE doms' = doms
  /\ nCalls' = nCalls + 1
  /\ UNCHANGED <<props, status, backendState, loadCycleId,
                 pendingBackendState, pendingLoadCycleId, memoDeps, dom,
                 lastWarning, nReloads, nPropChanges>>

\* getWindow returning the window of the first instance constructed.
getWindow_First == doms[1]

\* getWindow() and getDocument() of the handle: the window of the
\* instance the handle holds, and the document of that window.
getWindow == doms[dom]
getDocument == [title |-> doms[dom].title]

\* The DOM engine delivers DOMContentLoaded to instance i.
DOMContentLoaded(i) ==
  /\ doms[i].phase = "loading"
  /\ doms' = [doms EXCEPT ![i] =
                [OnDOMContentLoaded(@) EXCEPT !.phase = "interactive"]]
  /\ UNCHANGED <<props, status, backendState, loadCycleId,
                 pendingBackendState, pendingLoadCycleId, memoDeps, dom,
                 lastWarning, nReloads, nPropChanges, nCalls>>

\* The DOM engine delivers load to instance i: the listener of initDOM,
\* with the setBackendState('loaded') of the onLoad wrapper.
LoadEvent(i, batched) ==
  /\ doms[i].phase = "interactive"
  /\ MayFlush(batched)
  /\ LET ds == [doms EXCEPT ![i] =
                  [OnLoadDispatch(@) EXCEPT !.phase = "complete"]]
         pbs == IF IsFunction(doms[i].params.onLoad) /\ status = "mounted"
                THEN SetState(backendState, pendingBackendState, "loaded")
                ELSE pendingBackendState
     IN IF batched \/ pbs = <<>> \/ status # "mounted"
        THEN /\ doms' = ds
             /\ pendingBackendState' = pbs
             /\ UNCHANGED <<props, status, backendState, loadCycleId,
                            pendingLoadCycleId, memoDeps, dom>>
        ELSE Render(props, ds, pbs, pendingLoadCycleId)
  /\ UNCHANGED <<lastWarning, nReloads, nPropChanges, nCalls>>

\* children with the inner view rendered in every state.
children_Always(state, cycle) ==
  <<[testID |-> "backend-loading-" \o ToString(cycle)]>>

\* The inner view the component renders in backend state `state` and load
\* cycle `cycle`.
children(state, cycle) ==
  IF state = "loaded"
  THEN <<[testID |-> "backend-loading-" \o ToString(cycle)]>>
  ELSE <<>>

\* The element the component returns: the placeholder view as last rendered.
View ==
  [testID |-> "backend-" \o backendState \o "-" \o ToString(loadCycleId),
   children |-> children(backendState, loadCycleId)]

\* ------------------------------------------------------ specification
\* The values the host gives each prop.
FieldDomain(field) ==
  CASE field = "html" -> {"<title>A</title>", "<title>B</title>"}
    [] field = "url" -> {"https://a.example/", "https://b.example/"}
    [] field = "userAgent" -> {Undefined, "ersatz"}
    [] field = "injectedJavaScriptBeforeContentLoaded" ->
         {Undefined, SetGlobal, Post42}
    [] field = "injectedJavascript" -> {Undefined, PostReady}
    [] field = "javaScriptEnabled" -> {False, True}
    [] OTHER -> {Undefined, "f1"}

BaseProps ==
  [html |-> "<title>A</title>", url |-> "https://a.example/",
   userAgent |-> Undefined,
   injectedJavaScriptBeforeContentLoaded |-> SetGlobal,
   injectedJavascript |-> PostReady,
   javaScriptEnabled |-> True,
   onMessage |-> "f1", onLoadStart |-> "f1", onLoadProgress |-> "f1",
   onLoad |-> "f1", onLoadEnd |-> "f1", onNavigationStateChange |-> "f1"]

\* The configurations a mount starts from: BaseProps with one of the
\* script props changed.
InitProps ==
  {[BaseProps EXCEPT !.javaScriptEnabled = v] : v \in {True, False, Undefined}}
  \cup {[BaseProps EXCEPT !.injectedJavaScriptBeforeContentLoaded = v] :
          v \in {Undefined, PostHello, Post42}}
  \cup {[BaseProps EXCEPT !.injectedJavascript = v] :
          v \in {Undefined, EmptyScript, Post42, SetTitle}}

InjectedScripts == {SetGlobal, PostHello, Post42}

\* The component before its first render, given props of configs.
InitWith(configs) ==
  /\ props \in configs
  /\ status = "unmounted"
  /\ backendState = "loading"
  /\ loadCycleId = 0
  /\ pendingBackendState = <<>>
  /\ pendingLoadCycleId = <<>>
  /\ memoDeps = <<>>
  /\ dom = 0
  /\ doms = <<>>
  /\ lastWarning = None
  /\ nReloads = 0
  /\ nPropChanges = 0
  /\ nCalls = 0

Init == InitWith(InitProps)

Next ==
  \/ Mount
  \/ Rerender
  \/ \E field \in DOMAIN props : \E value \in FieldDomain(field) :
       SetProps(field, value)
  \/ \E batched \in BOOLEAN : reload(batched)
  \/ goBack
  \/ goForward
  \/ stopLoading
  \/ \E script \in InjectedScripts : injectJavascript(script)
  \/ \E i \in 1..Len(doms) : DOMContentLoaded(i)
  \/ \E i \in 1..Len(doms) : \E batched \in BOOLEAN : LoadEvent(i, batched)

Spec == Init /\ [][Next]_vars

\* The hosts that supply any subset of the six callbacks, and a host
\* without onMessage whose early script posts.
CallbackProps ==
  {[f \in DOMAIN BaseProps |->
      IF f \in missing THEN Undefined ELSE BaseProps[f]] :
     missing \in SUBSET CallbackNames}
  \cup {[BaseProps EXCEPT !.injectedJavaScriptBeforeContentLoaded = PostHello,
                          !.onMessage = Undefined]}

InitCallbacks == InitWith(CallbackProps)

\* Next, the host changing callbacks alone and injecting a posting script.
NextCallbacks ==
  \/ Mount
  \/ Rerender
  \/ \E field \in {"onLoad", "onMessage"} :
       \E value \in FieldDomain(field) : SetProps(field, value)
  \/ \E batched \in BOOLEAN : reload(batched)
  \/ goBack
  \/ goForward
  \/ stopLoading
  \/ injectJavascript(PostHello)
  \/ \E i \in 1..Len(doms) : DOMContentLoaded(i)
  \/ \E i \in 1..Len(doms) : \E batched \in BOOLEAN : LoadEvent(i, batched)

SpecCallbacks == InitCallbacks /\ [][NextCallbacks]_vars

\* ------------------------------------------------------------ properties
\* Whether the host supplied the callback that instance d would call.
Supplied(d, name) ==
  IF name = "onLoad"
  THEN d.params.onLoad \in {"onLoad[f1]", "onLoad[f2]"}
  ELSE d.params[name] \in Functions

Names(log) == [k \in 1..Len(log) |-> log[k].cb]

SuppliedOf(d, names) == SelectSeq(names, LAMBDA n : Supplied(d, n))

StartOrder == <<"onLoadStart", "onNavigationStateChange">>
FullLoadOrder ==
  <<"onLoadProgress", "onLoad", "onLoadEnd", "onNavigationStateChange">>

\* A dispatch of the load listener (its navigation-state change carries no
\* loading flag, that of the load-start sequence does).
IsFullLoad(e) ==
  \/ e.cb \in {"onLoadProgress", "onLoad", "onLoadEnd"}
  \/ e.cb = "onNavigationStateChange" /\ "loading" \notin DOMAIN e.arg

IsStart(e) ==
  \/ e.cb = "onLoadStart"
  \/ e.cb = "onNavigationStateChange" /\ "loading" \in DOMAIN e.arg

FullLoadOf(d) == SelectSeq(d.log, IsFullLoad)

\* C1 (amended): for every DOM instance, once its load event has fired the
\* supplied callbacks have been called in the order onLoadProgress (progress
\* 1), onLoad, onLoadEnd, onNavigationStateChange, exactly once for that
\* instance, and not at all before its load event.
C1_FullLoadOncePerInstance ==
  \A i \in 1..Len(doms) :
    LET d == doms[i]
        full == FullLoadOf(d)
    IN /\ Names(full) =
            IF d.phase = "complete" THEN SuppliedOf(d, FullLoadOrder) ELSE <<>>
       /\ \A k \in 1..Len(full) :
            full[k].cb = "onLoadProgress" =>
              full[k].arg.nativeEvent.progress = 1

\* C1 as stated: the same, and never twice for one load-cycle identifier.
C1_OncePerLoadCycleId ==
  /\ C1_FullLoadOncePerInstance
  /\ \A i, j \in 1..Len(doms) :
       (i # j /\ doms[i].phase = "complete" /\ doms[j].phase = "complete")
         => doms[i].params.loadCycleId # doms[j].params.loadCycleId

\* Two instances of one load cycle have both dispatched all four callbacks.
C1_Witness ==
  \E i, j \in 1..Len(doms) :
    /\ i # j
    /\ doms[i].params.loadCycleId = doms[j].params.loadCycleId
    /\ Names(FullLoadOf(doms[i])) = FullLoadOrder
    /\ Names(FullLoadOf(doms[j])) = FullLoadOrder

\* C2: every constructed DOM instance has, from the state initDOM leaves it
\* in (before DOMContentLoaded and load are delivered), onLoadStart and then
\* its onNavigationStateChange as the first entries of its log, each once
\* and with loading set, and no later entry repeats them.
C2_LoadStartFirstAndOnce ==
  \A i \in 1..Len(doms) :
    LET d == doms[i]
        start == SuppliedOf(d, StartOrder)
    IN IF d.phase = "failed"
       THEN d.log = <<>>
       ELSE /\ Len(d.log) >= Len(start)
            /\ Names(SubSeq(d.log, 1, Len(start))) = start
            /\ \A k \in 1..Len(d.log) :
                 IF k <= Len(start)
                 THEN /\ IsStart(d.log[k])
                      /\ IF d.log[k].cb = "onLoadStart"
                         THEN d.log[k].arg.nativeEvent.loading = TRUE
                         ELSE d.log[k].arg.loading = TRUE
                 ELSE ~IsStart(d.log[k])

\* A reconstructed instance that has dispatched load-start and nothing
\* else, DOMContentLoaded being still to come.
C2_Witness ==
  \E i \in 2..Len(doms) :
    /\ doms[i].phase = "loading"
    /\ Names(doms[i].log) = StartOrder

\* C3 as stated: once the component has rendered, N calls of reload() have
\* incremented the load-cycle counter N times and, the props being the
\* same, constructed N more DOM instances.
C3_ReloadsCounted ==
  (status = "mounted" /\ pendingLoadCycleId = <<>>) =>
    /\ loadCycleId = nReloads
    /\ nPropChanges = 0 => Len(doms) = 1 + nReloads

\* C4: a call of injectJavascript in state "loading" evaluates nothing; in
\* state "loaded" it evaluates the script once, in the current instance and
\* in no other, its effect on the window being what getWindow() returns.
C4_InjectOnlyWhenLoaded ==
  [][(\E script \in InjectedScripts : injectJavascript(script)) =>
       IF backendState = "loading"
       THEN doms' = doms
       ELSE /\ dom' = dom
            /\ \A j \in 1..Len(doms) : j # dom => doms'[j] = doms[j]
            /\ Len(doms') = Len(doms)
            /\ \E script \in InjectedScripts :
                 /\ Len(doms'[dom].evals) = Len(doms[dom].evals) + 1
                 /\ SubSeq(doms'[dom].evals, 1, Len(doms[dom].evals)) =
                      doms[dom].evals
                 /\ LET e == doms'[dom].evals[Len(doms'[dom].evals)]
                    IN /\ e.script = script
                       /\ e.phase = "injectJavascript"
                 /\ script = SetGlobal =>
                      doms'[dom].awesomeGlobal = doms[dom].awesomeGlobal + 1
     ]_vars

\* An injected script has run in the loaded current instance, after the
\* early script: the window holds the effect of both.
C4_Witness ==
  /\ status = "mounted"
  /\ backendState = "loaded"
  /\ getWindow.awesomeGlobal = 2
  /\ \E k \in 1..Len(getWindow.evals) :
       getWindow.evals[k].phase = "injectJavascript"

EvalsIn(d, phase) == SelectSeq(d.evals, LAMBDA e : e.phase = phase)

\* C5: in every instance the early script, when supplied, has been
\* evaluated exactly once, in beforeParse, whatever javaScriptEnabled is;
\* the main script has been evaluated exactly once if javaScriptEnabled is
\* true, a main script is supplied and DOMContentLoaded was delivered, and
\* never otherwise.
C5_InjectedScripts ==
  \A i \in 1..Len(doms) :
    LET d == doms[i]
        early == d.params.injectedJavaScriptBeforeContentLoaded
        main == d.params.injectedJavascript
    IN /\ [k \in 1..Len(EvalsIn(d, "beforeParse")) |->
             EvalsIn(d, "beforeParse")[k].script] =
            IF early \in {Undefined, EmptyScript} THEN <<>> ELSE <<early>>
       /\ [k \in 1..Len(EvalsIn(d, "DOMContentLoaded")) |->
             EvalsIn(d, "DOMContentLoaded")[k].script] =
            IF /\ d.params.javaScriptEnabled = True
               /\ main \notin {Undefined, EmptyScript}
               /\ d.phase \in {"interactive", "complete"}
            THEN <<main>>
            ELSE <<>>

\* An instance with javaScriptEnabled false and both scripts supplied has
\* loaded, having evaluated the early script alone.
C5_Witness ==
  \E i \in 1..Len(doms) :
    /\ doms[i].params.javaScriptEnabled = False
    /\ doms[i].params.injectedJavascript = PostReady
    /\ doms[i].phase = "complete"
    /\ Len(doms[i].evals) = 1
    /\ doms[i].evals[1].phase = "beforeParse"

MessagesOf(d) == SelectSeq(d.log, LAMBDA e : e.cb = "onMessage")

\* The argument each posting script gives postMessage.
PostedString(script) ==
  CASE script = PostHello -> "hello"
    [] script = PostReady -> "ready"
    [] OTHER -> "not a string"

PostsOf(d) ==
  SelectSeq(d.evals, LAMBDA e : e.script \in {PostHello, PostReady, Post42})

\* C6 as stated: every post of a non-string has raised and reached no
\* onMessage, whether or not onMessage is supplied; every post of a string
\* has raised nothing and has reached a supplied onMessage once, with the
\* string as data.
C6_PostMessage ==
  \A i \in 1..Len(doms) :
    LET d == doms[i]
        strings == SelectSeq(PostsOf(d), LAMBDA e : e.script # Post42)
    IN /\ \A k \in 1..Len(PostsOf(d)) :
            PostsOf(d)[k].threw <=> PostsOf(d)[k].script = Post42
       /\ Supplied(d, "onMessage") =>
            [k \in 1..Len(MessagesOf(d)) |->
               MessagesOf(d)[k].arg.nativeEvent.data] =
            [k \in 1..Len(strings) |-> PostedString(strings[k].script)]

\* C7: whatever subset of the callbacks the host leaves out, no instance
\* calls a callback that was not supplied, the supplied ones are called at
\* their usual points in their usual order, and a string post without
\* onMessage raises nothing and reaches nobody.
C7_MissingCallbacks ==
  \A i \in 1..Len(doms) :
    LET d == doms[i]
        lifecycle == SelectSeq(d.log, LAMBDA e : e.cb # "onMessage")
        strings == SelectSeq(PostsOf(d), LAMBDA e : e.script # Post42)
    IN /\ \A k \in 1..Len(d.log) : Supplied(d, d.log[k].cb)
       /\ d.phase # "failed" =>
            Names(lifecycle) =
              SuppliedOf(d, StartOrder) \o
              (IF d.phase = "complete" THEN SuppliedOf(d, FullLoadOrder)
               ELSE <<>>)
       /\ IF Supplied(d, "onMessage")
          THEN Len(MessagesOf(d)) =
                 Len(SelectSeq(strings, LAMBDA e : ~e.threw))
          ELSE /\ MessagesOf(d) = <<>>
               /\ \A k \in 1..Len(strings) : ~strings[k].threw

\* A host without onMessage, onLoad and onLoadStart: its instance has
\* loaded, a string was posted in it, and the three others were called.
C7_Witness ==
  \E i \in 1..Len(doms) :
    /\ doms[i].phase = "complete"
    /\ ~Supplied(doms[i], "onMessage")
    /\ Names(doms[i].log) =
         <<"onNavigationStateChange", "onLoadProgress", "onLoadEnd",
           "onNavigationStateChange">>
    /\ \E k \in 1..Len(doms[i].evals) : doms[i].evals[k].script = PostReady

\* C8: a call of stopLoading, goBack or goForward leaves the backend state,
\* the load-cycle counter, the queued updates, the props, the current
\* instance and every instance (its log of host calls included) as they
\* were: its one effect is the warning.
C8_UnimplementedControls ==
  [][(goBack \/ goForward \/ stopLoading) =>
       /\ UNCHANGED <<props, status, backendState, loadCycleId,
                      pendingBackendState, pendingLoadCycleId, memoDeps,
                      dom, doms>>
       /\ lastWarning' \in {"goBack not implemented",
                             "goForward not implemented",
                             "stopLoading not implemented"}
     ]_vars

\* goBack was called on a loaded backend.
C8_Witness ==
  /\ lastWarning = "goBack not implemented"
  /\ backendState = "loaded"
  /\ doms[dom].phase = "complete"

\* C9 as stated: once rendered, the backend state is "loaded" exactly when
\* the load event of the current instance has fired.
C9_LoadedIffLoadFired ==
  /\ backendState \in {"loading", "loaded"}
  /\ (/\ status = "mounted"
      /\ pendingBackendState = <<>>
      /\ pendingLoadCycleId = <<>>
      /\ nPropChanges = 0) =>
       (backendState = "loaded" <=> doms[dom].phase = "complete")

DepFields ==
  {"html", "url", "userAgent", "injectedJavaScriptBeforeContentLoaded",
   "injectedJavascript", "javaScriptEnabled", "onMessage", "onLoadStart",
   "onLoadProgress", "onLoad", "onLoadEnd", "onNavigationStateChange"}

\* A step in which a dependency of the DOM instance changes.
DepChanged ==
  \/ \E f \in DepFields : props'[f] # props[f]
  \/ loadCycleId' # loadCycleId

\* A step that constructs an instance from the new props and counter,
\* dispatches its load-start sequence and makes it the current one.
FreshInstance ==
  /\ Len(doms') = Len(doms) + 1
  /\ SubSeq(doms', 1, Len(doms)) = doms
  /\ dom' = Len(doms')
  /\ doms'[dom'].phase = "loading"
  /\ \A f \in DepFields \ {"onLoad"} : doms'[dom'].params[f] = props'[f]
  /\ doms'[dom'].params.loadCycleId = loadCycleId'
  /\ Names(doms'[dom'].log) = SuppliedOf(doms'[dom'], StartOrder)

\* C10 as stated: a render after a change of any dependency constructs a
\* fresh instance that replaces the current one, and the current instance
\* is replaced in no other way.
C10_ChangeRebuilds ==
  [][status = "mounted" =>
       /\ DepChanged => FreshInstance
       /\ (dom' # dom \/ Len(doms') # Len(doms)) => DepChanged
     ]_vars

\* C10 (amended): the same, unless initDOM raises, the early script having
\* raised: the render then fails and the current instance stays.
C10_ChangeRebuildsUnlessRaised ==
  [][status = "mounted" =>
       /\ (DepChanged /\ status' = "mounted") => FreshInstance
       /\ (DepChanged /\ status' # "mounted") =>
            /\ dom' = dom
            /\ Len(doms') = Len(doms) + 1
            /\ doms'[Len(doms')].phase = "failed"
            /\ doms'[Len(doms')].evals[1].threw
       /\ (dom' # dom \/ Len(doms') # Len(doms)) => DepChanged
     ]_vars

\* A change of userAgent alone has put a fresh instance in place.
C10_Witness ==
  /\ status = "mounted"
  /\ dom = 2
  /\ doms[2].params.userAgent = "ersatz"
  /\ doms[1].params.userAgent = Undefined
  /\ doms[2].params.loadCycleId = doms[1].params.loadCycleId

\* The host calls of instance d that C11 orders: onLoadStart, the message
\* of the main script, onLoad and onLoadEnd.
C11_Observed(d) ==
  SelectSeq(d.log, LAMBDA e :
    \/ IsStart(e) /\ e.cb = "onLoadStart"
    \/ e.cb = "onMessage" /\ e.arg.nativeEvent.data = "ready"
    \/ e.cb \in {"onLoad", "onLoadEnd"})

\* C11: for every instance with javaScriptEnabled true, the main script
\* posting 'ready' through window.ReactNativeWebView.postMessage, and
\* onMessage, onLoadStart, onLoad and onLoadEnd supplied, the host has seen
\* of that instance onLoadStart alone until DOMContentLoaded, then
\* onLoadStart and onMessage with data 'ready' until load, then onLoadStart,
\* that onMessage, onLoad and onLoadEnd: the message comes once, after
\* onLoadStart and before onLoad of its instance.
C11_MessageBetweenStartAndLoad ==
  \A i \in 1..Len(doms) :
    LET d == doms[i]
    IN (/\ d.phase # "failed"
        /\ d.params.javaScriptEnabled = True
        /\ d.params.injectedJavascript = PostReady
        /\ \A n \in {"onMessage", "onLoadStart", "onLoad", "onLoadEnd"} :
             Supplied(d, n)) =>
         Names(C11_Observed(d)) =
           CASE d.phase = "loading" -> <<"onLoadStart">>
             [] d.phase = "interactive" -> <<"onLoadStart", "onMessage">>
             [] OTHER -> <<"onLoadStart", "onMessage", "onLoad", "onLoadEnd">>

\* An instance built by reload() has loaded, its host having seen the four
\* calls in order, the message carrying 'ready'.
C11_Witness ==
  \E i \in 2..Len(doms) :
    /\ doms[i].params.loadCycleId = 1
    /\ doms[i].phase = "complete"
    /\ Names(C11_Observed(doms[i])) =
         <<"onLoadStart", "onMessage", "onLoad", "onLoadEnd">>
    /\ C11_Observed(doms[i])[2].arg.nativeEvent.data = "ready"

\* The decimal text of the load-cycle counters of the model.
CycleText(n) == <<"0", "1", "2", "3", "4", "5", "6", "7", "8", "9">>[n + 1]

\* C12: the placeholder view last rendered is identified
\* backend-<state>-<cycle>, with the backend state and load-cycle counter of
\* that render, and it has one child, identified backend-loading-<cycle>
\* with the same counter, if the backend state is "loaded" and no child
\* otherwise.
C12_TestIDs ==
  status = "mounted" =>
    /\ View.testID =
         (IF backendState = "loaded" THEN "backend-loaded-"
          ELSE "backend-loading-") \o CycleText(loadCycleId)
    /\ backendState = "loaded" <=> Len(View.children) = 1
    /\ backendState # "loaded" <=> View.children = <<>>
    /\ \A k \in 1..Len(View.children) :
         View.children[k].testID = "backend-loading-" \o CycleText(loadCycleId)

\* After a reload the loaded component has rendered backend-loaded-1 around
\* backend-loading-1.
C12_Witness ==
  /\ status = "mounted"
  /\ View = [testID |-> "backend-loaded-1",
             children |-> <<[testID |-> "backend-loading-1"]>>]
  /\ doms[dom].phase = "complete"

\* C13: after every step that leaves the component rendered, the one
\* instance the component holds is the last one constructed, getWindow()
\* and getDocument() return its window and its document, and a call of
\* injectJavascript changes no instance but that one.
C13_HandleOnLatest ==
  [][/\ status' = "mounted" =>
          /\ dom' \in 1..Len(doms')
          /\ dom' = Len(doms')
          /\ getWindow' = doms'[Len(doms')]
          /\ getDocument' = [title |-> doms'[Len(doms')].title]
     /\ (\E script \in InjectedScripts : injectJavascript(script)) =>
          /\ Len(doms') = Len(doms)
          /\ \A j \in 1..Len(doms) : j # Len(doms) => doms'[j] = doms[j]
    ]_vars

\* After a reload and a change of the markup the handle is on the third
\* instance, which has loaded and in which a script was injected; the two
\* discarded instances hold no injected script and another document.
C13_Witness ==
  /\ status = "mounted"
  /\ Len(doms) = 3
  /\ getWindow = doms[3]
  /\ getWindow.phase = "complete"
  /\ getDocument.title = "B"
  /\ \E k \in 1..Len(doms[3].evals) :
       doms[3].evals[k].phase = "injectJavascript"
  /\ \A j \in 1..2 :
       /\ doms[j].title = "A"
       /\ \A k \in 1..Len(doms[j].evals) :
            doms[j].evals[k].phase # "injectJavascript"

\* C14 as stated: when the load event of an instance that has been replaced
\* is delivered, no host callback is called and the backend state, rendered
\* or queued, stays as it was.
C14_StaleLoadDiscarded ==
  [][\A i \in 1..Len(doms) :
       (/\ status = "mounted"
        /\ i # dom
        /\ doms[i].phase = "interactive"
        /\ doms'[i].phase = "complete") =>
         /\ doms'[i].log = doms[i].log
         /\ backendState' = backendState
         /\ pendingBackendState' = pendingBackendState
    ]_vars

\* C15 as stated: a call of injectJavascript evaluates its script only in an
\* instance whose load event has fired; made on an instance still loading,
\* as after reload(), it changes nothing.
C15_InjectOnlyAfterLoadFired ==
  [][(\E script \in InjectedScripts : injectJavascript(script)) =>
       (doms[dom].phase # "complete" => doms' = doms)
    ]_vars

\* The load navigation event of instance d.
LoadEventOf(d) ==
  createNativeEvent([url |-> d.params.url, title |-> d.title,
                     navigationType |-> "other"])

OnLoadCallsOf(d) == SelectSeq(d.log, LAMBDA e : e.cb = "onLoad")

\* C16: a step that delivers the load event of the current instance of the
\* rendered component leaves the backend state "loaded" (rendered, or
\* queued for the next render), whether or not the host supplied onLoad; a
\* supplied onLoad has then been called once for that instance, with its
\* load navigation event and after the wrapper's one setBackendState call,
\* and an onLoad that was not supplied has not been called.
C16_LoadedThenOnLoad ==
  [][\A i \in 1..Len(doms) :
       (/\ status = "mounted"
        /\ i = dom
        /\ doms[i].phase = "interactive"
        /\ doms'[i].phase = "complete") =>
         /\ Rendered(backendState', pendingBackendState') = "loaded"
         /\ doms'[i].stateSets = 1
         /\ OnLoadCallsOf(doms[i]) = <<>>
         /\ IF Supplied(doms[i], "onLoad")
            THEN /\ Len(OnLoadCallsOf(doms'[i])) = 1
                 /\ OnLoadCallsOf(doms'[i])[1].arg = LoadEventOf(doms[i])
                 /\ OnLoadCallsOf(doms'[i])[1].stateSets = 1
            ELSE OnLoadCallsOf(doms'[i]) = <<>>
    ]_vars

\* A host without onLoad has its loaded instance and its component in
\* state "loaded", no onLoad having been called.
C16_Witness ==
  /\ status = "mounted"
  /\ backendState = "loaded"
  /\ pendingBackendState = <<>>
  /\ props.onLoad = Undefined
  /\ doms[dom].params.onLoad = "onLoad[undefined]"
  /\ doms[dom].phase = "complete"
  /\ doms[dom].stateSets = 1
  /\ Len(doms) = 1

\* The evaluations of instance d that post a string, through
\* window.postMessage or through window.ReactNativeWebView.postMessage.
StringPostsOf(d) ==
  SelectSeq(d.evals, LAMBDA e : e.script \in {PostHello, PostReady})

\* C17 as stated: in an instance given onMessage, every post of a string
\* through either bridge function, by the early script in beforeParse, by
\* the main script or by an injected script, has raised nothing and has
\* reached onMessage once, with the string as data.
C17_BridgeFromEveryPhase ==
  \A i \in 1..Len(doms) :
    LET d == doms[i]
    IN Supplied(d, "onMessage") =>
         /\ \A k \in 1..Len(StringPostsOf(d)) :
              /\ StringPostsOf(d)[k].phase \in
                   {"beforeParse", "DOMContentLoaded", "injectJavascript"}
              /\ ~StringPostsOf(d)[k].threw
         /\ Len(MessagesOf(d)) = Len(StringPostsOf(d))
         /\ \A k \in 1..Len(MessagesOf(d)) :
              MessagesOf(d)[k].arg.nativeEvent.data =
                PostedString(StringPostsOf(d)[k].script)

\* C18: while the host has changed no prop and has not called reload(),
\* the rendered component holds the one instance constructed at the mount,
\* under load-cycle counter 0 and the dependencies of the mount; that
\* instance has dispatched one load-start sequence and, once its load event
\* has fired, one full-load sequence; the backend state is then "loaded"
\* (rendered or queued), and it is never "loaded" before.
C18_NoReloadLoop ==
  (status = "mounted" /\ nReloads = 0 /\ nPropChanges = 0) =>
    /\ Len(doms) = 1
    /\ dom = 1
    /\ loadCycleId = 0
    /\ pendingLoadCycleId = <<>>
    /\ memoDeps = Deps(props, 0)
    /\ doms[1].params = Params(props, 0)
    /\ Names(SelectSeq(doms[1].log, IsStart)) = SuppliedOf(doms[1], StartOrder)
    /\ Names(FullLoadOf(doms[1])) =
         IF doms[1].phase = "complete"
         THEN SuppliedOf(doms[1], FullLoadOrder) ELSE <<>>
    /\ doms[1].phase = "complete" <=>
         Rendered(backendState, pendingBackendState) = "loaded"

\* The component has re-rendered in state "loaded" after the load event of
\* its first and only instance, and a script was then injected.
C18_Witness ==
  /\ status = "mounted"
  /\ nReloads = 0
  /\ nPropChanges = 0
  /\ backendState = "loaded"
  /\ pendingBackendState = <<>>
  /\ Len(doms) = 1
  /\ Names(SelectSeq(doms[1].log, LAMBDA e : e.cb # "onMessage")) =
       StartOrder \o FullLoadOrder
  /\ \E k \in 1..Len(doms[1].evals) :
       doms[1].evals[k].phase = "injectJavascript"

\* The load-cycle counter as the next render reads it.
CycleNow == Rendered(loadCycleId, pendingLoadCycleId)

\* C19: the load-cycle counter is 0 at the start; in a step that leaves the
\* component rendered it never decreases, the value the next render reads
\* changes in calls of reload() alone, the rendered value changes only to
\* the value reload() queued, and an instance constructed without a call of
\* reload() (a prop changed) is given the counter it found.
C19_CounterOnlyByReload ==
  /\ loadCycleId = 0 /\ pendingLoadCycleId = <<>>
  /\ [][status' = "mounted" =>
          /\ loadCycleId' >= loadCycleId
          /\ CycleNow' >= CycleNow
          /\ CycleNow' # CycleNow => \E batched \in BOOLEAN : reload(batched)
          /\ loadCycleId' # loadCycleId => loadCycleId' = CycleNow'
          /\ (/\ Len(doms') > Len(doms)
              /\ ~ \E batched \in BOOLEAN : reload(batched)) =>
               doms'[dom'].params.loadCycleId = CycleNow
       ]_vars

\* After a reload a prop was changed: the second and the third instance are
\* both of load cycle 1, the third has loaded and a control was called.
C19_Witness ==
  /\ status = "mounted"
  /\ loadCycleId = 1
  /\ Len(doms) = 3
  /\ doms[2].params.loadCycleId = 1
  /\ doms[3].params.loadCycleId = 1
  /\ doms[3].params # doms[2].params
  /\ doms[3].phase = "complete"
  /\ nCalls = 1

\* The navigation state a host call was given.
PayloadOf(e) ==
  IF e.cb = "onNavigationStateChange" THEN e.arg ELSE e.arg.nativeEvent

\* C20: every host call made in a step (load-start, the four calls of the
\* load listener, onMessage) carries the url and the title the instance
\* holds in that step; so in an instance whose main script has set the
\* title to 'T2', the load-start calls carry the title of the markup and
\* the calls of the load listener carry 'T2'.
C20_LiveUrlAndTitle ==
  /\ [][\A i \in 1..Len(doms') :
          LET before == IF i <= Len(doms) THEN Len(doms[i].log) ELSE 0
          IN \A k \in (before + 1)..Len(doms'[i].log) :
               /\ PayloadOf(doms'[i].log[k]).url = doms'[i].params.url
               /\ PayloadOf(doms'[i].log[k]).title = doms'[i].title
       ]_vars
  /\ [](\A i \in 1..Len(doms) :
          (\E k \in 1..Len(doms[i].evals) : doms[i].evals[k].script = SetTitle)
            => \A k \in 1..Len(doms[i].log) :
                 /\ IsStart(doms[i].log[k]) =>
                      PayloadOf(doms[i].log[k]).title =
                        TitleOf(doms[i].params.html)
                 /\ IsFullLoad(doms[i].log[k]) =>
                      PayloadOf(doms[i].log[k]).title = "T2")

\* An instance whose main script set the title has loaded: onLoadStart
\* carried 'A', onLoad and the last onNavigationStateChange carry 'T2'.
C20_Witness ==
  \E i \in 1..Len(doms) :
    /\ doms[i].phase = "complete"
    /\ doms[i].params.injectedJavascript = SetTitle
    /\ Names(doms[i].log) = StartOrder \o FullLoadOrder
    /\ doms[i].log[1].arg.nativeEvent.title = "A"
    /\ doms[i].log[4].arg.nativeEvent.title = "T2"
    /\ doms[i].log[6].arg.title = "T2"
    /\ doms[i].title = "T2"

====
